---- MODULE Spec2Model ----
(***************************************************************************)
(* Model of crates/next-core/src/next_shared/transforms.rs: the selection  *)
(* of Next.js transform rules for a context (get_next_transforms_rules)    *)
(* and the condition trees of the rules it builds.                         *)
(*                                                                         *)
(* A path is a sequence of one-character strings, so that suffix and       *)
(* prefix tests are textual.  An invocation of get_next_transforms_rules   *)
(* is an async call: it runs from one suspension point (an `.await?`) to   *)
(* the next in one step, so several invocations interleave at the awaits.  *)
(***************************************************************************)
EXTENDS Integers, Sequences, FiniteSets, TLC

VARIABLES ctx, pc, rules, resolved, requests, result, fs, fact, matched

vars == <<ctx, pc, rules, resolved, requests, result, fs, fact, matched>>

(* ------------------------------ bounds -------------------------------- *)

\* number of invocation slots that may be in flight at the same time
NumCalls == 2
\* largest number of paths the filesystem collaborator fails to resolve
MaxFailures == 1
\* largest number of directories between a base directory and a candidate
MaxDepth == 2

Calls == 1..NumCalls

(* ------------------------------ paths --------------------------------- *)

SLASH == <<"/">>
S_pages == <<"p", "a", "g", "e", "s">>
S_src == <<"s", "r", "c">>
S_api == <<"a", "p", "i">>
S_blog == <<"b", "l", "o", "g">>
S_about == <<"a", "b", "o", "u", "t">>
S_document == <<"_", "d", "o", "c", "u", "m", "e", "n", "t">>
S_x == <<"x">>

EXT_js == <<".", "j", "s">>
EXT_jsx == <<".", "j", "s", "x">>
EXT_ts == <<".", "t", "s">>
EXT_tsx == <<".", "t", "s", "x">>
EXT_css == <<".", "c", "s", "s">>
EXT_JS == <<".", "J", "S">>
EXT_map == <<".", "j", "s", ".", "m", "a", "p">>
EXT_njs == <<"j", "s">>

\* FileSystemPathVc::join: the base path, a separator, the literal name
Join(base, name) == base \o SLASH \o name

\* str::ends_with
EndsWith(path, suffix) ==
    /\ Len(path) >= Len(suffix)
    /\ SubSeq(path, Len(path) - Len(suffix) + 1, Len(path)) = suffix

\* str::starts_with
StartsWith(path, prefix) ==
    /\ Len(path) >= Len(prefix)
    /\ SubSeq(path, 1, Len(prefix)) = prefix

\* the directory itself, or anything nested at any depth beneath it
WithinDirectory(path, dir) ==
    \/ path = dir
    \/ StartsWith(path, dir \o SLASH)

\* the routing roots a context may carry
PageRoots == {SLASH \o S_pages, SLASH \o S_src \o SLASH \o S_pages}

(* ------------------------- reference kinds ---------------------------- *)

UrlUndefined == [type |-> "Url", sub |-> "Undefined"]

ReferenceTypes ==
    { UrlUndefined,
      [type |-> "Url", sub |-> "EcmaScriptNewUrl"],
      [type |-> "EcmaScriptModules", sub |-> "Undefined"] }

(* --------------------------- conditions ------------------------------- *)

\* ModuleRuleCondition: one record shape for every node; the fields a node
\* does not use are empty
Node(op, args, path, ref) == [op |-> op, args |-> args, path |-> path, ref |-> ref]
NoRef == [type |-> "", sub |-> ""]

CondAll(args) == Node("all", args, <<>>, NoRef)
CondAny(args) == Node("any", args, <<>>, NoRef)
CondNot(arg) == Node("not", <<arg>>, <<>>, NoRef)
ResourcePathEquals(p) == Node("ResourcePathEquals", <<>>, p, NoRef)
ResourcePathEndsWith(s) == Node("ResourcePathEndsWith", <<>>, s, NoRef)
ResourcePathInExactDirectory(d) == Node("ResourcePathInExactDirectory", <<>>, d, NoRef)
ReferenceTypeIs(r) == Node("ReferenceType", <<>>, <<>>, r)

RECURSIVE Matches(_, _)
\* evaluation of a condition tree against the facts of a candidate
Matches(cond, f) ==
    CASE cond.op = "all" -> \A i \in 1..Len(cond.args) : Matches(cond.args[i], f)
      [] cond.op = "any" -> \E i \in 1..Len(cond.args) : Matches(cond.args[i], f)
      [] cond.op = "not" -> ~Matches(cond.args[1], f)
      [] cond.op = "ResourcePathEquals" -> f.path = cond.path
      [] cond.op = "ResourcePathEndsWith" -> EndsWith(f.path, cond.path)
      [] cond.op = "ResourcePathInExactDirectory" -> WithinDirectory(f.path, cond.path)
      [] cond.op = "ReferenceType" -> f.ref = cond.ref

(* ----------------------------- contexts ------------------------------- *)

NoPath == <<>>

\* SharedContextType::Server(ServerContextType::Pages { pages_dir, ssr_type })
ServerPages(pages_dir, ssr_type) ==
    [side |-> "Server", ty |-> "Pages", pages_dir |-> pages_dir, ssr_type |-> ssr_type]
\* SharedContextType::Server(ServerContextType::AppSSR { .. }) and AppRSC { .. }
ServerApp(ty) == [side |-> "Server", ty |-> ty, pages_dir |-> NoPath, ssr_type |-> ""]
\* SharedContextType::Client(ClientContextType::Pages { pages_dir })
ClientPages(pages_dir) ==
    [side |-> "Client", ty |-> "Pages", pages_dir |-> pages_dir, ssr_type |-> ""]
\* SharedContextType::Client(App { .. } | Fallback | Other)
ClientOther(ty) == [side |-> "Client", ty |-> ty, pages_dir |-> NoPath, ssr_type |-> ""]

SharedContextType ==
    {ServerPages(d, t) : d \in PageRoots, t \in {"Ssr", "SsrData"}}
        \cup {ServerApp(ty) : ty \in {"AppSSR", "AppRSC"}}
        \cup {ClientPages(d) : d \in PageRoots}
        \cup {ClientOther(ty) : ty \in {"App", "Fallback", "Other"}}

NoContext == [side |-> "", ty |-> "", pages_dir |-> NoPath, ssr_type |-> ""]

(* ------------------------- transforms and rules ----------------------- *)

Some(p) == [some |-> TRUE, v |-> p]
None == [some |-> FALSE, v |-> NoPath]

\* the cargo feature "next-font-local"; off in the default build
NextFontLocal == FALSE

\* EcmascriptInputTransform: one record shape for the three transforms
Transform(kind, filter, dev, server, components, pages_dir, loaders) ==
    [kind |-> kind, export_filter |-> filter, is_development |-> dev,
     is_server |-> server, is_server_components |-> components,
     pages_dir |-> pages_dir, font_loaders |-> loaders]

NextJsStripPageExports(export_filter) ==
    Transform("NextJsStripPageExports", export_filter, FALSE, FALSE, FALSE, None, <<>>)
NextJsDynamic(dev, server, components, pages_dir) ==
    Transform("NextJsDynamic", "", dev, server, components, pages_dir, <<>>)
NextJsFont(loaders) ==
    Transform("NextJsFont", "", FALSE, FALSE, FALSE, None, loaders)

\* ModuleRule::new(condition, vec![AddEcmascriptTransforms(transforms)])
ModuleRule(condition, transforms) == [condition |-> condition, effects |-> transforms]

\* the extension gate shared by the three rules
ScriptExtensions ==
    CondAny(<< ResourcePathEndsWith(EXT_js), ResourcePathEndsWith(EXT_jsx),
               ResourcePathEndsWith(EXT_ts), ResourcePathEndsWith(EXT_tsx) >>)

\* the names joined to pages_dir, in the order they are awaited
Keys == {"pages_dir", "api", "_document.js", "_document.jsx", "_document.ts", "_document.tsx"}
AwaitOrder == <<"pages_dir", "api", "_document.js", "_document.jsx", "_document.ts", "_document.tsx">>

KeyName(k) ==
    CASE k = "api" -> S_api
      [] k = "_document.js" -> S_document \o EXT_js
      [] k = "_document.jsx" -> S_document \o EXT_jsx
      [] k = "_document.ts" -> S_document \o EXT_ts
      [] k = "_document.tsx" -> S_document \o EXT_tsx

\* the path an await of the pages rule yields when it succeeds
ResolvedPath(pages_dir, k) ==
    IF k = "pages_dir" THEN pages_dir ELSE Join(pages_dir, KeyName(k))

\* faulty variant: the exclusion of the api directory is lost
PagesCondition_noApiExclusion(r) ==
    CondAll(<<
        CondAll(<<
            ResourcePathInExactDirectory(r["pages_dir"]),
            CondNot(CondAny(<<
                ResourcePathEquals(r["_document.js"]),
                ResourcePathEquals(r["_document.jsx"]),
                ResourcePathEquals(r["_document.ts"]),
                ResourcePathEquals(r["_document.tsx"]) >>)) >>),
        ScriptExtensions >>)

\* faulty variant: _document.tsx is missing from the excluded files
PagesCondition_noTsxDocument(r) ==
    CondAll(<<
        CondAll(<<
            ResourcePathInExactDirectory(r["pages_dir"]),
            CondNot(ResourcePathInExactDirectory(r["api"])),
            CondNot(CondAny(<<
                ResourcePathEquals(r["_document.js"]),
                ResourcePathEquals(r["_document.jsx"]),
                ResourcePathEquals(r["_document.ts"]) >>)) >>),
        ScriptExtensions >>)

\* the condition of the pages rule, from the six resolved paths
PagesCondition(r) ==
    CondAll(<<
        CondAll(<<
            ResourcePathInExactDirectory(r["pages_dir"]),
            CondNot(ResourcePathInExactDirectory(r["api"])),
            CondNot(CondAny(<<
                ResourcePathEquals(r["_document.js"]),
                ResourcePathEquals(r["_document.jsx"]),
                ResourcePathEquals(r["_document.ts"]),
                ResourcePathEquals(r["_document.tsx"]) >>)) >>),
        ScriptExtensions >>)

get_next_pages_transforms_rule(r, export_filter) ==
    ModuleRule(PagesCondition(r), <<NextJsStripPageExports(export_filter)>>)

\* faulty variant: the suffixes are written without their dot
DynamicCondition_noDot ==
    CondAll(<< CondNot(ReferenceTypeIs(UrlUndefined)),
               CondAny(<< ResourcePathEndsWith(<<"j", "s">>),
                          ResourcePathEndsWith(<<"j", "s", "x">>),
                          ResourcePathEndsWith(<<"t", "s">>),
                          ResourcePathEndsWith(<<"t", "s", "x">>) >>) >>)

\* the condition of the dynamic rule
DynamicCondition ==
    CondAll(<< CondNot(ReferenceTypeIs(UrlUndefined)), ScriptExtensions >>)

get_next_dynamic_transform_rule(is_development, is_server, is_server_components, pages_dir) ==
    ModuleRule(DynamicCondition,
               <<NextJsDynamic(is_development, is_server, is_server_components, pages_dir)>>)

font_loaders ==
    IF NextFontLocal THEN <<"@next/font/google", "@next/font/local">>
    ELSE <<"@next/font/google">>

\* faulty variant: URL references are not excluded
FontCondition_noUrlExclusion == CondAll(<< ScriptExtensions >>)

\* the condition of the font rule
FontCondition ==
    CondAll(<< CondNot(ReferenceTypeIs(UrlUndefined)), ScriptExtensions >>)

get_next_font_transform_rule == ModuleRule(FontCondition, <<NextJsFont(font_loaders)>>)

(* ------------------- get_next_transforms_rules, by parts --------------- *)

\* faulty variant: the rule is inserted at the front
Push_prepend(list, rule) == <<rule>> \o list

\* rules.push
Push(list, rule) == Append(list, rule)

RECURSIVE PushAll(_, _)
PushAll(list, new) ==
    IF new = <<>> THEN list ELSE PushAll(Push(list, Head(new)), Tail(new))

\* faulty variant: the AppRSC arm passes is_server_components = false
EntryRules_componentsOff(context_ty) ==
    CASE context_ty.side = "Server" /\ context_ty.ty = "Pages" ->
            <<get_next_dynamic_transform_rule(TRUE, TRUE, FALSE, Some(context_ty.pages_dir))>>
      [] context_ty.side = "Server" /\ context_ty.ty \in {"AppSSR", "AppRSC"} ->
            <<get_next_dynamic_transform_rule(TRUE, TRUE, FALSE, None)>>
      [] context_ty.side = "Client" /\ context_ty.ty = "Pages" ->
            <<get_next_font_transform_rule>>
      [] context_ty.side = "Client" /\ context_ty.ty \in {"App", "Fallback", "Other"} ->
            <<get_next_font_transform_rule,
              get_next_dynamic_transform_rule(TRUE, FALSE, FALSE, None)>>

\* the rules pushed from the entry of the call up to its first await or its return
EntryRules(context_ty) ==
    CASE context_ty.side = "Server" /\ context_ty.ty = "Pages" ->
            <<get_next_dynamic_transform_rule(TRUE, TRUE, FALSE, Some(context_ty.pages_dir))>>
      [] context_ty.side = "Server" /\ context_ty.ty = "AppSSR" ->
            <<get_next_dynamic_transform_rule(TRUE, TRUE, FALSE, None)>>
      [] context_ty.side = "Server" /\ context_ty.ty = "AppRSC" ->
            <<get_next_dynamic_transform_rule(TRUE, TRUE, TRUE, None)>>
      [] context_ty.side = "Client" /\ context_ty.ty = "Pages" ->
            <<get_next_font_transform_rule>>
      [] context_ty.side = "Client" /\ context_ty.ty \in {"App", "Fallback", "Other"} ->
            <<get_next_font_transform_rule,
              get_next_dynamic_transform_rule(TRUE, FALSE, FALSE, None)>>

\* faulty variant: every Server/Pages arm builds the pages rule
NeedsPagesRule_everyPagesArm(context_ty) == context_ty.ty = "Pages"

\* the arms that call get_next_pages_transforms_rule(..).await?
NeedsPagesRule(context_ty) ==
    \/ context_ty.side = "Server" /\ context_ty.ty = "Pages" /\ context_ty.ssr_type = "SsrData"
    \/ context_ty.side = "Client" /\ context_ty.ty = "Pages"

\* the NextJsPageExportFilter an arm passes
ExportFilter(context_ty) ==
    IF context_ty.side = "Server" THEN "StripDefaultExport" ELSE "StripDataExports"

\* the rules pushed after the pages rule
TailRules(context_ty) ==
    IF context_ty.side = "Client"
    THEN <<get_next_dynamic_transform_rule(TRUE, FALSE, FALSE, Some(context_ty.pages_dir))>>
    ELSE <<>>

(* --------------------------- candidates ------------------------------- *)

DirNames == {S_api, S_blog}

RECURSIVE SubDirs(_)
\* the relative directories of depth at most n
SubDirs(n) ==
    IF n = 0 THEN {<<>>}
    ELSE SubDirs(n - 1) \cup {d \o SLASH \o name : d \in SubDirs(n - 1), name \in DirNames}

\* the routing roots, and a sibling whose name extends a root's name
Bases == PageRoots \cup {SLASH \o S_pages \o S_x}

Directories == {b \o s : b \in Bases, s \in SubDirs(MaxDepth)}

Extensions == {EXT_js, EXT_jsx, EXT_ts, EXT_tsx, EXT_css, EXT_JS, EXT_map, EXT_njs}

FileNames == {stem \o ext : stem \in {S_about, S_document, S_api}, ext \in Extensions}

CandidatePaths == Directories \cup {Join(d, f) : d \in Directories, f \in FileNames}

\* ResourceFact: the path of a candidate and how it is referenced
Candidates == [path : CandidatePaths, ref : ReferenceTypes]

NoFact == [path |-> NoPath, ref |-> NoRef]
NoMatch == [call |-> 0, hits |-> <<>>]

(* ------------------------------ state --------------------------------- *)

NoResolved == [k \in Keys |-> NoPath]
NoResult == [tag |-> "none", rules |-> <<>>, err |-> ""]
Ok(list) == [tag |-> "ok", rules |-> list, err |-> ""]
Err(k) == [tag |-> "err", rules |-> <<>>, err |-> k]

\* the responses of the filesystem collaborator: the awaits that fail
FailSets == {S \in SUBSET Keys : Cardinality(S) <= MaxFailures}

Suspended(c) == pc[c] \in Keys
Finished(c) == pc[c] \in {"done", "failed", "abandoned"}

\* faulty variant: the list is a static shared by all calls
StoreRules_static(rs, c, list) == [d \in DOMAIN rs |-> list]

\* `let mut rules = vec![]` is a local of the call
StoreRules(rs, c, list) == [rs EXCEPT ![c] = list]

\* the await that follows the await of k; "" after the last one
NextAwait(k) ==
    LET i == CHOOSE j \in 1..Len(AwaitOrder) : AwaitOrder[j] = k
    IN  IF i = Len(AwaitOrder) THEN "" ELSE AwaitOrder[i + 1]

Init ==
    /\ ctx = [c \in Calls |-> NoContext]
    /\ pc = [c \in Calls |-> "idle"]
    /\ rules = [c \in Calls |-> <<>>]
    /\ resolved = [c \in Calls |-> NoResolved]
    /\ requests = [c \in Calls |-> <<>>]
    /\ result = [c \in Calls |-> NoResult]
    /\ fs \in FailSets
    /\ fact = NoFact
    /\ matched = NoMatch

\* a caller invokes get_next_transforms_rules(context_ty)
Invoke(c, context_ty) ==
    /\ pc[c] = "idle" \/ Finished(c)
    /\ ctx' = [ctx EXCEPT ![c] = context_ty]
    /\ pc' = [pc EXCEPT ![c] = "entry"]
    /\ rules' = [rules EXCEPT ![c] = <<>>]
    /\ resolved' = [resolved EXCEPT ![c] = NoResolved]
    /\ requests' = [requests EXCEPT ![c] = <<>>]
    /\ result' = [result EXCEPT ![c] = NoResult]
    /\ matched' = IF matched.call = c THEN NoMatch ELSE matched
    /\ UNCHANGED <<fs, fact>>

\* the first poll: from the entry to the first await, or to Ok(rules)
Entry(c) ==
    /\ pc[c] = "entry"
    /\ LET list == PushAll(<<>>, EntryRules(ctx[c]))
       IN  /\ rules' = StoreRules(rules, c, list)
           /\ IF NeedsPagesRule(ctx[c])
              THEN /\ pc' = [pc EXCEPT ![c] = AwaitOrder[1]]
                   /\ UNCHANGED result
              ELSE /\ pc' = [pc EXCEPT ![c] = "done"]
                   /\ result' = [result EXCEPT ![c] = Ok(list)]
    /\ UNCHANGED <<ctx, resolved, requests, fs, fact, matched>>

\* an await of the pages rule, other than the last, yields its path
Resolve(c) ==
    /\ Suspended(c)
    /\ pc[c] \notin fs
    /\ NextAwait(pc[c]) # ""
    /\ requests' = [requests EXCEPT ![c] = Append(@, pc[c])]
    /\ resolved' = [resolved EXCEPT ![c][pc[c]] = ResolvedPath(ctx[c].pages_dir, pc[c])]
    /\ pc' = [pc EXCEPT ![c] = NextAwait(pc[c])]
    /\ UNCHANGED <<ctx, rules, result, fs, fact, matched>>

\* the last await yields: the pages rule is built and pushed, then the rest
\* of the arm runs and the call returns Ok(rules)
Finish(c) ==
    /\ Suspended(c)
    /\ pc[c] \notin fs
    /\ NextAwait(pc[c]) = ""
    /\ LET r == [resolved[c] EXCEPT ![pc[c]] = ResolvedPath(ctx[c].pages_dir, pc[c])]
           rule == get_next_pages_transforms_rule(r, ExportFilter(ctx[c]))
           list == PushAll(Push(rules[c], rule), TailRules(ctx[c]))
       IN  /\ resolved' = [resolved EXCEPT ![c] = r]
           /\ rules' = StoreRules(rules, c, list)
           /\ result' = [result EXCEPT ![c] = Ok(list)]
    /\ requests' = [requests EXCEPT ![c] = Append(@, pc[c])]
    /\ pc' = [pc EXCEPT ![c] = "done"]
    /\ UNCHANGED <<ctx, fs, fact, matched>>

\* faulty variant: the error is swallowed and the rules pushed so far returned
Fail_partial(c) ==
    /\ Suspended(c)
    /\ pc[c] \in fs
    /\ requests' = [requests EXCEPT ![c] = Append(@, pc[c])]
    /\ result' = [result EXCEPT ![c] = Ok(rules[c])]
    /\ pc' = [pc EXCEPT ![c] = "done"]
    /\ UNCHANGED <<ctx, rules, resolved, fs, fact, matched>>

\* an await fails: `?` returns the error and the locals are dropped
Fail(c) ==
    /\ Suspended(c)
    /\ pc[c] \in fs
    /\ requests' = [requests EXCEPT ![c] = Append(@, pc[c])]
    /\ result' = [result EXCEPT ![c] = Err(pc[c])]
    /\ rules' = [rules EXCEPT ![c] = <<>>]
    /\ pc' = [pc EXCEPT ![c] = "failed"]
    /\ UNCHANGED <<ctx, resolved, fs, fact, matched>>

\* faulty variant: dropping the future clears the lists of all calls
Abandon_clearsAll(c) ==
    /\ Suspended(c)
    /\ rules' = [d \in Calls |-> <<>>]
    /\ pc' = [pc EXCEPT ![c] = "abandoned"]
    /\ UNCHANGED <<ctx, resolved, requests, result, fs, fact, matched>>

\* the caller drops the future while it is suspended at an await
Abandon(c) ==
    /\ Suspended(c)
    /\ rules' = [rules EXCEPT ![c] = <<>>]
    /\ pc' = [pc EXCEPT ![c] = "abandoned"]
    /\ UNCHANGED <<ctx, resolved, requests, result, fs, fact, matched>>

Next ==
    \E c \in Calls :
        \/ \E context_ty \in SharedContextType : Invoke(c, context_ty)
        \/ Entry(c)
        \/ Resolve(c)
        \/ Finish(c)
        \/ Fail(c)
        \/ Abandon(c)

Spec == Init /\ [][Next]_vars

(* ------------------ evaluation of a returned rule list ----------------- *)

\* the pipeline evaluates the condition of every returned rule, in list
\* order, against the facts of one candidate
Evaluate(c) ==
    /\ pc[c] = "done"
    /\ matched = NoMatch
    /\ matched' = [call |-> c,
                   hits |-> [i \in 1..Len(result[c].rules) |->
                                Matches(result[c].rules[i].condition, fact)]]
    /\ UNCHANGED <<ctx, pc, rules, resolved, requests, result, fs, fact>>

InitEval ==
    /\ ctx = [c \in Calls |-> NoContext]
    /\ pc = [c \in Calls |-> "idle"]
    /\ rules = [c \in Calls |-> <<>>]
    /\ resolved = [c \in Calls |-> NoResolved]
    /\ requests = [c \in Calls |-> <<>>]
    /\ result = [c \in Calls |-> NoResult]
    /\ fs = {}
    /\ fact \in Candidates
    /\ matched = NoMatch

NextEval ==
    \/ \E context_ty \in SharedContextType : Invoke(1, context_ty)
    \/ Entry(1)
    \/ Resolve(1)
    \/ Finish(1)
    \/ Evaluate(1)

SpecEval == InitEval /\ [][NextEval]_vars

(* ====================== properties of the selector ===================== *)

RuleKind(rule) == rule.effects[1].kind
RuleKinds(list) == [i \in 1..Len(list) |-> RuleKind(list[i])]

\* the contexts whose row of the decision table holds a page-export-strip rule
StripContexts ==
    {ServerPages(d, "SsrData") : d \in PageRoots} \cup {ClientPages(d) : d \in PageRoots}

\* the page-export-strip rule of the decision table for a routing root
StripRuleOf(page_root, filter) ==
    get_next_pages_transforms_rule([k \in Keys |-> ResolvedPath(page_root, k)], filter)

\* the decision table: whether row i is the row of a context, and its rules
RowApplies(i, c) ==
    CASE i = 1 -> c.side = "Server" /\ c.ty = "Pages" /\ c.ssr_type = "Ssr"
      [] i = 2 -> c.side = "Server" /\ c.ty = "Pages" /\ c.ssr_type = "SsrData"
      [] i = 3 -> c.side = "Server" /\ c.ty = "AppSSR"
      [] i = 4 -> c.side = "Server" /\ c.ty = "AppRSC"
      [] i = 5 -> c.side = "Client" /\ c.ty = "Pages"
      [] i = 6 -> c.side = "Client" /\ c.ty \in {"App", "Fallback", "Other"}

RowRules(i, c) ==
    CASE i = 1 -> <<get_next_dynamic_transform_rule(TRUE, TRUE, FALSE, Some(c.pages_dir))>>
      [] i = 2 -> <<get_next_dynamic_transform_rule(TRUE, TRUE, FALSE, Some(c.pages_dir)),
                    StripRuleOf(c.pages_dir, "StripDefaultExport")>>
      [] i = 3 -> <<get_next_dynamic_transform_rule(TRUE, TRUE, FALSE, None)>>
      [] i = 4 -> <<get_next_dynamic_transform_rule(TRUE, TRUE, TRUE, None)>>
      [] i = 5 -> <<get_next_font_transform_rule,
                    StripRuleOf(c.pages_dir, "StripDataExports"),
                    get_next_dynamic_transform_rule(TRUE, FALSE, FALSE, Some(c.pages_dir))>>
      [] i = 6 -> <<get_next_font_transform_rule,
                    get_next_dynamic_transform_rule(TRUE, FALSE, FALSE, None)>>

Rows == 1..6

\* C1: a call that returns Ok returns exactly the rules of the one row of the
\* decision table that applies to its context, in the row's order and with the
\* row's parameters; every context has exactly one such row.
C1_DecisionTable ==
    \A c \in Calls :
        pc[c] = "done" =>
            /\ Cardinality({i \in Rows : RowApplies(i, ctx[c])}) = 1
            /\ \A i \in Rows : RowApplies(i, ctx[c]) => result[c] = Ok(RowRules(i, ctx[c]))

C1_Witness ==
    \E c \in Calls :
        /\ pc[c] = "done"
        /\ ctx[c] \in {ServerPages(d, "SsrData") : d \in PageRoots}
        /\ Len(result[c].rules) = 2

\* C2: a successful call for a Client/Pages context returns exactly three
\* rules, in the order font-loader, page-export-strip, dynamic-import, however
\* its awaits interleave with other calls.
C2_ClientPagesOrder ==
    \A c \in Calls :
        (pc[c] = "done" /\ ctx[c] \in {ClientPages(d) : d \in PageRoots}) =>
            /\ result[c].tag = "ok"
            /\ RuleKinds(result[c].rules)
                   = <<"NextJsFont", "NextJsStripPageExports", "NextJsDynamic">>

C2_Witness ==
    \E c, d \in Calls :
        /\ c # d
        /\ pc[c] = "done"
        /\ ctx[c] \in {ClientPages(r) : r \in PageRoots}
        /\ Suspended(d)
        /\ ctx[d] \in {ClientPages(r) : r \in PageRoots}

\* C3: once an await of the pages rule has failed, the call has returned that
\* failure and no rule list, the failing request is the last one it made, and
\* its requests are the awaits in order up to the failing one, each made once.
C3_FailFast ==
    \A c \in Calls :
        (\E i \in 1..Len(requests[c]) : requests[c][i] \in fs) =>
            /\ pc[c] = "failed"
            /\ result[c] = Err(requests[c][Len(requests[c])])
            /\ result[c].rules = <<>>
            /\ requests[c] = SubSeq(AwaitOrder, 1, Len(requests[c]))
            /\ \A i \in 1..(Len(requests[c]) - 1) : requests[c][i] \notin fs

C3_Witness ==
    \E c \in Calls :
        /\ pc[c] = "failed"
        /\ ctx[c] \in {ClientPages(r) : r \in PageRoots}
        /\ result[c] = Err("_document.tsx")
        /\ Len(requests[c]) = 6

\* C8: two calls with the same context, under the same responses of the
\* filesystem collaborator, that have both returned have the same outcome:
\* the same rule list or the same failure.
C8_Deterministic ==
    \A c, d \in Calls :
        (/\ c # d
         /\ ctx[c] = ctx[d]
         /\ pc[c] \in {"done", "failed"}
         /\ pc[d] \in {"done", "failed"}) => result[c] = result[d]

C8_Witness ==
    \E c, d \in Calls :
        /\ c # d
        /\ ctx[c] = ctx[d]
        /\ ctx[c] \in StripContexts
        /\ pc[c] = "done"
        /\ pc[d] = "done"

JoinKeys == Keys \ {"pages_dir"}

\* C9 as stated: a context without a page-export-strip rule makes no request
\* and never fails, and a context with one never fails when all of the joins
\* of page_root with "api" and the "_document.*" names succeed.
C9_Original ==
    \A c \in Calls :
        /\ (ctx[c] \in SharedContextType \ StripContexts) =>
                (requests[c] = <<>> /\ pc[c] # "failed")
        /\ (ctx[c] \in StripContexts /\ JoinKeys \cap fs = {}) => pc[c] # "failed"

\* C9 amended: as above, but a context with a page-export-strip rule never
\* fails when the await of page_root itself and all of the joins succeed; a
\* failure returned is the failure of one of these awaits.
C9_FailsOnlyOnResolution ==
    \A c \in Calls :
        /\ (ctx[c] \in SharedContextType \ StripContexts) =>
                (requests[c] = <<>> /\ pc[c] # "failed")
        /\ (ctx[c] \in StripContexts /\ fs = {}) => pc[c] # "failed"
        /\ pc[c] = "failed" => (result[c].tag = "err" /\ result[c].err \in fs)
        /\ pc[c] = "done" => result[c].tag = "ok"

C9_Witness ==
    \E c \in Calls :
        /\ ctx[c] \in StripContexts
        /\ fs = {}
        /\ pc[c] = "done"
        /\ requests[c] = AwaitOrder

\* what a caller or another call could observe of a call
CallState(c) == <<ctx[c], pc[c], rules[c], resolved[c], requests[c], result[c]>>

\* C10: a step of one call changes nothing of any other call; a call that
\* completes returns the list of its context's row whatever the other calls
\* did meanwhile; a call that fails or is abandoned leaves no rule list.
C10_Step ==
    \A c \in Calls :
        pc'[c] # pc[c] =>
            /\ \A d \in Calls \ {c} : CallState(d)' = CallState(d)
            /\ pc'[c] = "done" =>
                   \E i \in Rows : RowApplies(i, ctx[c]) /\ result'[c] = Ok(RowRules(i, ctx[c]))
            /\ pc'[c] \in {"failed", "abandoned"} =>
                   (rules'[c] = <<>> /\ result'[c].rules = <<>>)

C10_NoInterference == [][C10_Step]_vars

C10_Witness ==
    \E c, d \in Calls :
        /\ c # d
        /\ pc[c] = "done"
        /\ ctx[c] \in StripContexts
        /\ pc[d] = "abandoned"
        /\ ctx[d] \in StripContexts

(* ===================== properties of the conditions ==================== *)

\* the call whose returned list was evaluated, and its routing root
EvalCall == matched.call
EvalRoot == ctx[EvalCall].pages_dir
EvalRules == result[EvalCall].rules

\* the positions of the rules of a kind in the evaluated list
RulesOfKind(kind) == {i \in 1..Len(matched.hits) : RuleKind(EvalRules[i]) = kind}

\* strictly beneath a directory, at any depth
NestedBeneath(path, dir) == StartsWith(path, dir \o SLASH)

\* page_root/"api" or nested beneath it
InApi(path, page_root) ==
    \/ path = Join(page_root, S_api)
    \/ NestedBeneath(path, Join(page_root, S_api))

\* one of the four page_root/"_document.*" files
IsDocument(path, page_root) ==
    path \in {Join(page_root, S_document \o e) : e \in {EXT_js, EXT_jsx, EXT_ts, EXT_tsx}}

\* ends with one of the four script extensions
HasScriptExtension(path) ==
    \E e \in {EXT_js, EXT_jsx, EXT_ts, EXT_tsx} : EndsWith(path, e)

\* C4: the page-export-strip condition rejects every candidate that is
\* page_root/"api" or beneath it, and accepts every candidate with a script
\* extension nested at any depth beneath page_root that is neither within
\* page_root/"api" nor one of the page_root/"_document.*" files.
C4_DirectoryExclusion ==
    EvalCall # 0 =>
        \A i \in RulesOfKind("NextJsStripPageExports") :
            /\ InApi(fact.path, EvalRoot) => ~matched.hits[i]
            /\ (/\ NestedBeneath(fact.path, EvalRoot)
                /\ HasScriptExtension(fact.path)
                /\ ~InApi(fact.path, EvalRoot)
                /\ ~IsDocument(fact.path, EvalRoot)) => matched.hits[i]

C4_Witness ==
    /\ EvalCall # 0
    /\ \E i \in RulesOfKind("NextJsStripPageExports") :
           /\ matched.hits[i]
           /\ NestedBeneath(fact.path, Join(Join(EvalRoot, S_blog), S_api))

\* C5: a candidate at page_root/"_document.js", ".jsx", ".ts" or ".tsx" never
\* satisfies the page-export-strip condition, whatever its reference kind, in
\* the Client/Pages and in the Server/Pages SsrData context.
C5_DocumentExclusion ==
    EvalCall # 0 =>
        \A i \in RulesOfKind("NextJsStripPageExports") :
            IsDocument(fact.path, EvalRoot) => ~matched.hits[i]

C5_Witness ==
    /\ EvalCall # 0
    /\ ctx[EvalCall].side = "Server"
    /\ fact.path = Join(EvalRoot, S_document \o EXT_tsx)
    /\ \E i \in RulesOfKind("NextJsStripPageExports") : ~matched.hits[i]

\* C6: a candidate referenced as a URL of undefined sub-type satisfies neither
\* the dynamic-import nor the font-loader condition, and for every candidate
\* the font-loader condition holds iff the dynamic-import condition holds.
C6_UrlExclusion ==
    EvalCall # 0 =>
        /\ fact.ref = UrlUndefined =>
               \A i \in RulesOfKind("NextJsDynamic") \cup RulesOfKind("NextJsFont") :
                   ~matched.hits[i]
        /\ \A i \in RulesOfKind("NextJsFont") : \A j \in RulesOfKind("NextJsDynamic") :
               matched.hits[i] = matched.hits[j]

C6_Witness ==
    /\ EvalCall # 0
    /\ fact.ref = UrlUndefined
    /\ EndsWith(fact.path, EXT_tsx)
    /\ RulesOfKind("NextJsFont") # {}
    /\ RulesOfKind("NextJsDynamic") # {}

\* C7: for a candidate not referenced as a URL of undefined sub-type, the
\* dynamic-import condition holds iff the path ends, textually and with the
\* same case, with ".js", ".jsx", ".ts" or ".tsx".
C7_ExtensionGate ==
    EvalCall # 0 =>
        (fact.ref # UrlUndefined =>
            \A i \in RulesOfKind("NextJsDynamic") :
                matched.hits[i] <=> HasScriptExtension(fact.path))

C7_Witness ==
    /\ EvalCall # 0
    /\ fact.ref # UrlUndefined
    /\ EndsWith(fact.path, EXT_JS)
    /\ \E i \in RulesOfKind("NextJsDynamic") : ~matched.hits[i]

====
